---- MODULE Spec2Model ----
(***************************************************************************)
(* The forward pass of HierarchicalAttentionNetwork                         *)
(* (hierarchical_attention.ipynb): the length probe, the selection of the   *)
(* non-empty rows, the sort / encode / unsort of a sentence slot, the       *)
(* attention pool, the repack to the full batch, the per-document sentence  *)
(* counter and the sentence-level pass.                                     *)
(*                                                                          *)
(* Indices: the source counts rows, slots and word positions from 0, the    *)
(* sequences of this module from 1; position p of the source is p + 1 here. *)
(*                                                                          *)
(* Numbers: a tensor entry is a formal value.  The zero written by          *)
(* torch.zeros is the empty tuple <<>>; an output unit of a recurrent       *)
(* encoder is <<direction, unit, inputs read>>; a softmax weight is the     *)
(* fraction <<numerator, denominator>>; an entry of a pooled vector is the  *)
(* tuple of its terms <<weight, raw entry>>.                                *)
(***************************************************************************)
EXTENDS Integers, Sequences, FiniteSets, TLC

\* Bounds of the model: the shapes of the input batch X.
MaxBatch == 3
MaxSents == 2
MaxWords == 3
MaxCells == 6
\* Cap on the cells of the two batches of two interleaved forward passes.
MaxPairCells == 3

\* Program constants (the notebook's configuration cell).
padding_idx == 1
n_hidden == 1
n_classes == 5

\* Token indices: the padding index and two word indices.
Tokens == {padding_idx, 5, 7}

VARIABLES
    X,                  \* the caller's TokenBatch: batch_size x n_sents x n_words
    X0,                 \* the TokenBatch as it was when forward was called
    pc,                 \* position of the forward pass
    i,                  \* the sentence slot of the loop (1-based)
    encoded_sents_word, \* list of per-slot repacked sentence vectors
    sentence_alphas,    \* list of per-slot repacked word attention weights
    sentence_lengths,   \* per-document observed sentence count
    lengths,            \* probed lengths of the slot's rows
    sentence_words_nonzero, \* the slot's kept rows
    indexes_nonzero,    \* kept row indices of the slot
    lengths_nonzero,    \* probed lengths of the kept rows
    sorted_lengths,     \* lengths handed to pack_padded_sequence
    sorted_indices,     \* the sort permutation over the kept rows
    sentence_words,     \* the slot's rows; after the sort, the rows handed to embed
    words_encoded,      \* encoder output, one row per kept row
    sentence_vector,    \* pooled vectors (kept rows, then repacked)
    sentence_alpha,     \* attention weights (kept rows, then repacked)
    encoded_sents,      \* sentence-level encoder output
    encoded_docs,       \* document vectors
    document_alpha,     \* document-level attention weights
    out,                \* logits
    branch,             \* the branch of the dim() test the slot took
    params,             \* the learned parameters of the model instance
    embedding_weights,  \* the constructor's embedding_weights argument
    constructed,        \* whether __init__ returned
    other,              \* the call frame of the suspended forward pass
    running             \* which of the two forward passes is running

vars == <<X, X0, pc, i, encoded_sents_word, sentence_alphas, sentence_lengths,
          lengths, sentence_words_nonzero, indexes_nonzero, lengths_nonzero,
          sorted_lengths, sorted_indices,
          sentence_words, words_encoded, sentence_vector, sentence_alpha,
          encoded_sents, encoded_docs, document_alpha, out, branch,
          params, embedding_weights, constructed, other, running>>

----------------------------------------------------------------------------
\* Shapes of X
batch_size == Len(X)
n_sents == Len(X[1])
n_words == Len(X[1][1])

Min(a, b) == IF a < b THEN a ELSE b

RECURSIVE Sum(_)
Sum(s) == IF s = <<>> THEN 0 ELSE s[1] + Sum(Tail(s))

RECURSIVE Pow2(_)
Pow2(n) == IF n = 0 THEN 1 ELSE 2 * Pow2(n - 1)

\* torch.zeros(n)
Zero == <<>>
Zeros(n) == [k \in 1..n |-> Zero]

----------------------------------------------------------------------------
\* get_sequence_lengths: the inner scan.  n is the 1-based enumerate counter,
\* seq_len the running value; the scan stops at the first padding_value.
RECURSIVE get_seq_len_scan(_, _, _, _)
get_seq_len_scan(sequence, padding_value, n, seq_len) ==
    IF n > Len(sequence) THEN seq_len
    ELSE IF sequence[n] = padding_value THEN seq_len
    ELSE get_seq_len_scan(sequence, padding_value, n + 1, n)

\* Variant of get_seq_len: counts every non-padding token of the row.
get_seq_len_count_all(sequence, padding_value) ==
    Cardinality({n \in 1..Len(sequence) : sequence[n] # padding_value})

get_seq_len(sequence, padding_value) ==
    get_seq_len_scan(sequence, padding_value, 1, 0)

get_sequence_lengths(sequences, padding_value) ==
    [r \in 1..Len(sequences) |-> get_seq_len(sequences[r], padding_value)]

\* torch.nonzero(lengths).view(-1): the indices of the non-zero entries,
\* ascending.
RECURSIVE nonzero_from(_, _)
nonzero_from(ls, r) ==
    IF r > Len(ls) THEN <<>>
    ELSE IF ls[r] # 0 THEN <<r>> \o nonzero_from(ls, r + 1)
    ELSE nonzero_from(ls, r + 1)

\* Variant of nonzero: keeps every row.
nonzero_keep_all(ls) == [r \in 1..Len(ls) |-> r]

nonzero(ls) == nonzero_from(ls, 1)

\* The rank of the tensor view(-1) returns: always 1.
\* Variant of view_dim: a single index is a rank-0 tensor.
view_dim_squeezed(indexes) == IF Len(indexes) = 1 THEN 0 ELSE 1

view_dim(indexes) == 1

\* tensor[indexes]: gather rows
Gather(t, indexes) == [j \in 1..Len(indexes) |-> t[indexes[j]]]

get_nonzero_sequences(sequences, ls) ==
    [nonzero_seqs |-> Gather(sequences, nonzero(ls)), indexes |-> nonzero(ls)]

----------------------------------------------------------------------------
\* torch.sort(lengths_nonzero, descending=True) gives no guarantee on the order
\* of equal keys: every permutation that orders the keys non-increasingly
\* is a possible sorted_indices.
Perms(n) == {p \in [1..n -> 1..n] : \A a, b \in 1..n : a # b => p[a] # p[b]}

\* Variant of sort_descending: shortest first.
sort_ascending(keys) ==
    {p \in Perms(Len(keys)) :
        \A a, b \in 1..Len(keys) : a < b => keys[p[a]] <= keys[p[b]]}

sort_descending(keys) ==
    {p \in Perms(Len(keys)) :
        \A a, b \in 1..Len(keys) : a < b => keys[p[a]] >= keys[p[b]]}

\* torch.sort(sorted_indices)[1]: the argsort of a permutation, ascending.
\* Entry j is the position at which the value j stands.
\* Variant of argsort: the rows are indexed by the sort permutation itself.
argsort_not_inverted(p) == p

\* Variant of argsort: the rows are left in sorted order.
argsort_identity(p) == [j \in 1..Len(p) |-> j]

\* Variant of argsort: the second sort runs in descending order.
argsort_descending(p) ==
    [j \in 1..Len(p) |-> CHOOSE a \in 1..Len(p) : p[a] = Len(p) + 1 - j]

argsort(p) == [j \in 1..Len(p) |-> CHOOSE a \in 1..Len(p) : p[a] = j]

\* self.embed(words): the row of the table weight for each token.
embed(words, weight) ==
    [j \in 1..Len(words) |-> [t \in 1..Len(words[j]) |-> weight[words[j][t]]]]

\* pack_padded_sequence accepts a non-empty batch whose lengths are positive
\* and in non-increasing order.
\* Variant of pack_padded_sequence_ok: a batch of one row is rejected.
pack_padded_sequence_rejects_single(ls) ==
    /\ Len(ls) > 1
    /\ \A a \in 1..Len(ls) : ls[a] > 0
    /\ \A a \in 1..(Len(ls) - 1) : ls[a] >= ls[a + 1]

pack_padded_sequence_ok(ls) ==
    /\ Len(ls) > 0
    /\ \A a \in 1..Len(ls) : ls[a] > 0
    /\ \A a \in 1..(Len(ls) - 1) : ls[a] >= ls[a + 1]

\* One timestep of a bidirectional GRU over the first len entries of
\* row: the forward units read row[1..t], the backward units row[t..len].
gru_step(row, t, len) ==
    [k \in 1..(2 * n_hidden) |->
        IF k <= n_hidden THEN <<"f", k, SubSeq(row, 1, t)>>
        ELSE <<"b", k, SubSeq(row, t, len)>>]

\* GRU over one row of a packed batch followed by pad_packed_sequence: the
\* timesteps past the row's length are zero, up to the batch's longest row.
gru_packed_row(row, len, total) ==
    [t \in 1..total |->
        IF t <= len THEN gru_step(row, t, len) ELSE Zeros(2 * n_hidden)]

\* Variant of word_encoder: pads to the full width of the input rows.
word_encoder_total_length(words_embedded, ls) ==
    [j \in 1..Len(words_embedded) |->
        gru_packed_row(words_embedded[j], ls[j], Len(words_embedded[j]))]

\* self.word_encoder on pack_padded_sequence(words_embedded, sorted_lengths),
\* then pad_packed_sequence: the padded width is the longest length.
word_encoder(words_embedded, ls) ==
    [j \in 1..Len(words_embedded) |->
        gru_packed_row(words_embedded[j], ls[j], ls[1])]

\* self.sentence_encoder on the unpacked tensor: every position is read.
sentence_encoder(seqs) ==
    [d \in 1..Len(seqs) |-> gru_packed_row(seqs[d], Len(seqs[d]), Len(seqs[d]))]

----------------------------------------------------------------------------
\* SequenceClassifierAttention.forward (batch_first = True).
\* The score of a timestep vector, tanh(mlp(x)) . u_w: 0 for the zero vector,
\* else the parity of u_w plus the number of inputs its first forward unit
\* has read.
attention_score(x, u_w) ==
    IF x = Zeros(Len(x)) THEN 0 ELSE (Len(x[1][3]) + u_w) % 2

\* F.softmax(scores, dim=1), with exp taken as 2^score: weight t is the
\* fraction <<2^score[t], sum over t' of 2^score[t']>>.
\* Variant of softmax: the exponentials are not divided by their sum.
softmax_unnormalised(scores) ==
    [t \in 1..Len(scores) |-> <<Pow2(scores[t]), 1>>]

softmax(scores) ==
    [t \in 1..Len(scores) |->
        <<Pow2(scores[t]), Sum([u \in 1..Len(scores) |-> Pow2(scores[u])])>>]

attention_alpha(row, u_w) ==
    softmax([t \in 1..Len(row) |-> attention_score(row[t], u_w)])

IsNonZeroTerm(term) == term[2] # Zero

\* torch.sum(X * alpha.unsqueeze(2), dim=1): entry k is the sum over t of
\* alpha[t] * row[t][k]; a term whose raw entry is zero adds nothing.
attention_out(row, alpha) ==
    [k \in 1..Len(row[1]) |->
        SelectSeq([t \in 1..Len(row) |-> <<alpha[t], row[t][k]>>], IsNonZeroTerm)]

attention_forward(Xs, u_w) ==
    [out |-> [j \in 1..Len(Xs) |->
                 attention_out(Xs[j], attention_alpha(Xs[j], u_w))],
     alpha |-> [j \in 1..Len(Xs) |-> attention_alpha(Xs[j], u_w)]]

----------------------------------------------------------------------------
\* _repack_with_zero_seqs: batch_size zero rows of width seq_vectors.shape[1],
\* then one assignment per pair of zip(seq_vectors, indexes_nonzero).
\* Variant of repack_assign: pair n is written to row n.
RECURSIVE repack_assign_in_order(_, _, _, _)
repack_assign_in_order(repacked_seqs, seq_vectors, indexes, n) ==
    IF n > Min(Len(seq_vectors), Len(indexes)) THEN repacked_seqs
    ELSE repack_assign_in_order([repacked_seqs EXCEPT ![n] = seq_vectors[n]],
                                seq_vectors, indexes, n + 1)

RECURSIVE repack_assign(_, _, _, _)
repack_assign(repacked_seqs, seq_vectors, indexes, n) ==
    IF n > Min(Len(seq_vectors), Len(indexes)) THEN repacked_seqs
    ELSE repack_assign([repacked_seqs EXCEPT ![indexes[n]] = seq_vectors[n]],
                       seq_vectors, indexes, n + 1)

\* Variant of _repack_with_zero_seqs: the kept rows are returned as they are.
_repack_kept_only(seq_vectors, bsize, indexes) == seq_vectors

\* Variant of _repack_with_zero_seqs: the placeholder rows are copies of the
\* first kept row.
_repack_with_first_seq(seq_vectors, bsize, indexes) ==
    repack_assign([b \in 1..bsize |-> seq_vectors[1]], seq_vectors, indexes, 1)

_repack_with_zero_seqs(seq_vectors, bsize, indexes) ==
    repack_assign([b \in 1..bsize |-> Zeros(Len(seq_vectors[1]))],
                  seq_vectors, indexes, 1)

\* self.out
linear_out(docs) ==
    [d \in 1..Len(docs) |-> [c \in 1..n_classes |-> <<"o", c, docs[d]>>]]

\* torch.cat(encoded_sents_word, dim=1): slot-major to document-major
cat_dim1(slots) ==
    [d \in 1..Len(slots[1]) |-> [s \in 1..Len(slots) |-> slots[s][d]]]

----------------------------------------------------------------------------
\* The batches forward may be called with: every shape within the bounds,
\* every token at every position.
BatchesOfCells(cells) ==
    UNION {[1..b -> [1..s -> [1..w -> Tokens]]] :
             <<b, s, w>> \in {t \in (1..MaxBatch) \X (1..MaxSents) \X (1..MaxWords) :
                                t[1] * t[2] * t[3] <= cells}}

Batches == BatchesOfCells(MaxCells)

NoValue == <<>>

\* The embedding_weights argument: None (the empty tuple) or a table.
PretrainedTables == {[tok \in Tokens |-> <<"p", tok>>]}
CtorArguments == {<<>>} \cup {<<table>> : table \in PretrainedTables}

\* HierarchicalAttentionNetwork.__init__: nn.Embedding builds its table with
\* a zero padding row; with embedding_weights given, self.embed.data is
\* looked up, nn.Embedding has no attribute data, and __init__ raises.
\* The context vectors u_w start at one fixed value.
__init__(weights) ==
    [constructed |-> weights = <<>>,
     params |->
        [embed |-> [tok \in Tokens |->
                       IF tok = padding_idx THEN Zero ELSE <<"e", tok>>],
         word_u_w |-> 0,
         sentence_u_w |-> 0]]

\* The call frame of a forward pass that has not begun.
InitFrame(batch) ==
    /\ X = batch
    /\ X0 = X
    /\ pc = "INIT"
    /\ i = 0
    /\ encoded_sents_word = NoValue
    /\ sentence_alphas = NoValue
    /\ sentence_lengths = NoValue
    /\ lengths = NoValue
    /\ sentence_words_nonzero = NoValue
    /\ indexes_nonzero = NoValue
    /\ lengths_nonzero = NoValue
    /\ sorted_lengths = NoValue
    /\ sorted_indices = NoValue
    /\ sentence_words = NoValue
    /\ words_encoded = NoValue
    /\ sentence_vector = NoValue
    /\ sentence_alpha = NoValue
    /\ encoded_sents = NoValue
    /\ encoded_docs = NoValue
    /\ document_alpha = NoValue
    /\ out = NoValue
    /\ branch = "none"

Init ==
    /\ \E batch \in Batches : InitFrame(batch)
    /\ embedding_weights \in CtorArguments
    /\ constructed = __init__(embedding_weights).constructed
    /\ params = __init__(embedding_weights).params
    /\ other = NoValue
    /\ running = 1

\* encode_sentences_words, before the loop
Begin ==
    /\ constructed
    /\ pc = "INIT"
    /\ pc' = "probe"
    /\ i' = 1
    /\ encoded_sents_word' = <<>>
    /\ sentence_alphas' = <<>>
    /\ sentence_lengths' = [b \in 1..batch_size |-> 0]
    /\ UNCHANGED <<branch, params, embedding_weights, constructed, other, running,
                   X, X0, lengths, sentence_words_nonzero, indexes_nonzero,
                   lengths_nonzero, sorted_lengths, sorted_indices,
                   sentence_words, words_encoded, sentence_vector,
                   sentence_alpha, encoded_sents, encoded_docs,
                   document_alpha, out>>

\* X[:,i,:]
slot(tensor, s) == [b \in 1..Len(tensor) |-> tensor[b][s]]

\* Slice the slot, probe the lengths, select the non-empty rows.
Probe ==
    /\ pc = "probe"
    /\ LET words == slot(X, i)
           ls == get_sequence_lengths(words, padding_idx)
           nz == get_nonzero_sequences(words, ls)
       IN /\ sentence_words' = words
          /\ lengths' = ls
          /\ sentence_words_nonzero' = nz.nonzero_seqs
          /\ indexes_nonzero' = nz.indexes
          /\ lengths_nonzero' = Gather(ls, nz.indexes)
    /\ pc' = "sort"
    /\ UNCHANGED <<branch, params, embedding_weights, constructed, other, running,
                   X, X0, i, encoded_sents_word, sentence_alphas,
                   sentence_lengths, sorted_lengths, sorted_indices,
                   words_encoded, sentence_vector, sentence_alpha,
                   encoded_sents, encoded_docs, document_alpha, out>>

\* Variant of Sort: the reordered rows are written back into the slot of
\* the caller's tensor.
Sort_in_place ==
    /\ pc = "sort"
    /\ \E p \in sort_descending(lengths_nonzero) :
          /\ sorted_indices' = p
          /\ sorted_lengths' = Gather(lengths_nonzero, p)
          /\ sentence_words' = Gather(sentence_words_nonzero, p)
          /\ branch' = "sort"
          /\ X' = [b \in 1..batch_size |-> [s \in 1..n_sents |->
                      IF s = i /\ \E j \in 1..Len(p) : indexes_nonzero[j] = b
                      THEN LET j == CHOOSE j \in 1..Len(p) :
                                        indexes_nonzero[j] = b
                           IN sentence_words_nonzero[p[j]]
                      ELSE X[b][s]]]
    /\ pc' = "encode"
    /\ UNCHANGED <<params, embedding_weights, constructed, other, running,
                   X0, i, encoded_sents_word, sentence_alphas,
                   sentence_lengths, lengths, sentence_words_nonzero,
                   indexes_nonzero, lengths_nonzero, words_encoded,
                   sentence_vector, sentence_alpha, encoded_sents,
                   encoded_docs, document_alpha, out>>

\* Order the kept rows by length, longest first.
Sort ==
    /\ pc = "sort"
    /\ IF view_dim(indexes_nonzero) > 0
       THEN \E p \in sort_descending(lengths_nonzero) :
               /\ sorted_indices' = p
               /\ sorted_lengths' = Gather(lengths_nonzero, p)
               /\ sentence_words' = Gather(sentence_words_nonzero, p)
               /\ branch' = "sort"
       ELSE /\ sorted_indices' = indexes_nonzero
            /\ sorted_lengths' = lengths_nonzero
            /\ sentence_words' = <<sentence_words_nonzero>>
            /\ branch' = "unsqueeze"
    /\ pc' = "encode"
    /\ UNCHANGED <<params, embedding_weights, constructed, other, running,
                   X, X0, i, encoded_sents_word, sentence_alphas,
                   sentence_lengths, lengths, sentence_words_nonzero,
                   indexes_nonzero, lengths_nonzero, words_encoded,
                   sentence_vector, sentence_alpha, encoded_sents,
                   encoded_docs, document_alpha, out>>

\* Embed, pack, encode, pad, and put the rows back in kept-row order.
\* pack_padded_sequence raises when it rejects the lengths.
Encode ==
    /\ pc = "encode"
    /\ IF pack_padded_sequence_ok(sorted_lengths)
       THEN /\ words_encoded' =
                   Gather(word_encoder(embed(sentence_words, params.embed),
                                       sorted_lengths),
                          argsort(sorted_indices))
            /\ pc' = "pool"
       ELSE /\ pc' = "failed"
            /\ UNCHANGED words_encoded
    /\ UNCHANGED <<branch, params, embedding_weights, constructed, other, running,
                   X, X0, i, encoded_sents_word, sentence_alphas,
                   sentence_lengths, lengths, sentence_words_nonzero,
                   indexes_nonzero, lengths_nonzero, sorted_lengths,
                   sorted_indices, sentence_words, sentence_vector,
                   sentence_alpha, encoded_sents, encoded_docs,
                   document_alpha, out>>

\* self.word_attention(words_encoded)
Pool ==
    /\ pc = "pool"
    /\ LET att == attention_forward(words_encoded, params.word_u_w)
       IN /\ sentence_vector' = att.out
          /\ sentence_alpha' = att.alpha
    /\ pc' = "repack"
    /\ UNCHANGED <<branch, params, embedding_weights, constructed, other, running,
                   X, X0, i, encoded_sents_word, sentence_alphas,
                   sentence_lengths, lengths, sentence_words_nonzero,
                   indexes_nonzero, lengths_nonzero, sorted_lengths,
                   sorted_indices, sentence_words, words_encoded,
                   encoded_sents, encoded_docs, document_alpha, out>>

\* Repack the pooled vectors and the attention weights to batch_size rows.
Repack ==
    /\ pc = "repack"
    /\ sentence_vector' =
           _repack_with_zero_seqs(sentence_vector, batch_size, indexes_nonzero)
    /\ sentence_alpha' =
           _repack_with_zero_seqs(sentence_alpha, batch_size, indexes_nonzero)
    /\ pc' = "append"
    /\ UNCHANGED <<branch, params, embedding_weights, constructed, other, running,
                   X, X0, i, encoded_sents_word, sentence_alphas,
                   sentence_lengths, lengths, sentence_words_nonzero,
                   indexes_nonzero, lengths_nonzero, sorted_lengths,
                   sorted_indices, sentence_words, words_encoded,
                   encoded_sents, encoded_docs, document_alpha, out>>

\* Append the slot's vectors and weights to the accumulating lists.
AppendSlot ==
    /\ pc = "append"
    /\ encoded_sents_word' = Append(encoded_sents_word, sentence_vector)
    /\ sentence_alphas' = Append(sentence_alphas, sentence_alpha)
    /\ pc' = "count"
    /\ UNCHANGED <<branch, params, embedding_weights, constructed, other, running,
                   X, X0, i, sentence_lengths, lengths, sentence_words_nonzero,
                   indexes_nonzero, lengths_nonzero, sorted_lengths,
                   sorted_indices, sentence_words, words_encoded,
                   sentence_vector, sentence_alpha, encoded_sents,
                   encoded_docs, document_alpha, out>>

\* Variant of increment_all: every document is counted.
increment_every(counts, indexes, n) == [b \in 1..Len(counts) |-> counts[b] + 1]

\* Variant of increment_all: the loop stops after its first index.
increment_first_only(counts, indexes, n) ==
    IF n > Len(indexes) THEN counts
    ELSE [counts EXCEPT ![indexes[n]] = @ + 1]

\* for index in indexes_nonzero: sentence_lengths[index] += 1
RECURSIVE increment_all(_, _, _)
increment_all(counts, indexes, n) ==
    IF n > Len(indexes) THEN counts
    ELSE increment_all([counts EXCEPT ![indexes[n]] = @ + 1], indexes, n + 1)

\* Count the slot for the documents that were non-empty in it; next slot.
Count ==
    /\ pc = "count"
    /\ sentence_lengths' = increment_all(sentence_lengths, indexes_nonzero, 1)
    /\ IF i < n_sents
       THEN /\ i' = i + 1
            /\ pc' = "probe"
       ELSE /\ i' = i
            /\ pc' = "cat"
    /\ UNCHANGED <<branch, params, embedding_weights, constructed, other, running,
                   X, X0, encoded_sents_word, sentence_alphas, lengths,
                   sentence_words_nonzero, indexes_nonzero, lengths_nonzero,
                   sorted_lengths, sorted_indices, sentence_words,
                   words_encoded, sentence_vector, sentence_alpha,
                   encoded_sents, encoded_docs, document_alpha, out>>

\* torch.cat along the sentence axis; encode_sentences_words returns.
Return ==
    /\ pc = "cat"
    /\ encoded_sents_word' = cat_dim1(encoded_sents_word)
    /\ pc' = "SENTENCE_LEVEL"
    /\ UNCHANGED <<branch, params, embedding_weights, constructed, other, running,
                   X, X0, i, sentence_alphas, sentence_lengths, lengths,
                   sentence_words_nonzero, indexes_nonzero, lengths_nonzero,
                   sorted_lengths, sorted_indices, sentence_words,
                   words_encoded, sentence_vector, sentence_alpha,
                   encoded_sents, encoded_docs, document_alpha, out>>

\* forward: the sentence encoder and the sentence attention.
SentenceLevel ==
    /\ pc = "SENTENCE_LEVEL"
    /\ LET enc == sentence_encoder(encoded_sents_word)
           att == attention_forward(enc, params.sentence_u_w)
       IN /\ encoded_sents' = enc
          /\ encoded_docs' = att.out
          /\ document_alpha' = att.alpha
    /\ pc' = "PROJECT"
    /\ UNCHANGED <<branch, params, embedding_weights, constructed, other, running,
                   X, X0, i, encoded_sents_word, sentence_alphas,
                   sentence_lengths, lengths, sentence_words_nonzero,
                   indexes_nonzero, lengths_nonzero, sorted_lengths,
                   sorted_indices, sentence_words, words_encoded,
                   sentence_vector, sentence_alpha, out>>

\* forward: the output projection; forward returns.
Project ==
    /\ pc = "PROJECT"
    /\ out' = linear_out(encoded_docs)
    /\ pc' = "DONE"
    /\ UNCHANGED <<branch, params, embedding_weights, constructed, other, running,
                   X, X0, i, encoded_sents_word, sentence_alphas,
                   sentence_lengths, lengths, sentence_words_nonzero,
                   indexes_nonzero, lengths_nonzero, sorted_lengths,
                   sorted_indices, sentence_words, words_encoded,
                   sentence_vector, sentence_alpha, encoded_sents,
                   encoded_docs, document_alpha>>

Next ==
    \/ Begin
    \/ Probe
    \/ Sort
    \/ Encode
    \/ Pool
    \/ Repack
    \/ AppendSlot
    \/ Count
    \/ Return
    \/ SentenceLevel
    \/ Project

Spec == Init /\ [][Next]_vars

----------------------------------------------------------------------------
\* Two forward passes on one model instance, interleaved at any step. The
\* locals of encode_sentences_words and forward live in the frame of the
\* call; the model instance (params) is shared by the two calls.

\* The frame of the running pass.
Frame ==
    [X |-> X, X0 |-> X0, pc |-> pc, i |-> i,
     encoded_sents_word |-> encoded_sents_word,
     sentence_alphas |-> sentence_alphas,
     sentence_lengths |-> sentence_lengths,
     lengths |-> lengths,
     sentence_words_nonzero |-> sentence_words_nonzero,
     indexes_nonzero |-> indexes_nonzero,
     lengths_nonzero |-> lengths_nonzero,
     sorted_lengths |-> sorted_lengths,
     sorted_indices |-> sorted_indices,
     sentence_words |-> sentence_words,
     words_encoded |-> words_encoded,
     sentence_vector |-> sentence_vector,
     sentence_alpha |-> sentence_alpha,
     encoded_sents |-> encoded_sents,
     encoded_docs |-> encoded_docs,
     document_alpha |-> document_alpha,
     out |-> out,
     branch |-> branch]

\* The frame of a pass over batch that has not begun.
NewFrame(batch) ==
    [X |-> batch, X0 |-> batch, pc |-> "INIT", i |-> 0,
     encoded_sents_word |-> NoValue,
     sentence_alphas |-> NoValue,
     sentence_lengths |-> NoValue,
     lengths |-> NoValue,
     sentence_words_nonzero |-> NoValue,
     indexes_nonzero |-> NoValue,
     lengths_nonzero |-> NoValue,
     sorted_lengths |-> NoValue,
     sorted_indices |-> NoValue,
     sentence_words |-> NoValue,
     words_encoded |-> NoValue,
     sentence_vector |-> NoValue,
     sentence_alpha |-> NoValue,
     encoded_sents |-> NoValue,
     encoded_docs |-> NoValue,
     document_alpha |-> NoValue,
     out |-> NoValue,
     branch |-> "none"]

\* The batches of the two passes. Either pass may take the first step, so
\* the pair is listed with its smaller batch first.
BatchPairs ==
    UNION {BatchesOfCells(cells) \X BatchesOfCells(MaxPairCells - cells) :
             cells \in 1..(MaxPairCells \div 2)}

Init2 ==
    /\ \E pair \in BatchPairs :
          /\ InitFrame(pair[1])
          /\ other = NewFrame(pair[2])
    /\ embedding_weights = <<>>
    /\ constructed = __init__(embedding_weights).constructed
    /\ params = __init__(embedding_weights).params
    /\ running = 1

\* The scheduler suspends the running pass and resumes the other one:
\* each pass finds its own frame as it left it.
\* Variant of Switch: sentence_lengths is kept on the model instance, so the
\* resumed pass finds the counts of the suspended one.
Switch_shared_counts ==
    /\ other # NoValue
    /\ other' = Frame
    /\ running' = 3 - running
    /\ X' = other.X
    /\ X0' = other.X0
    /\ pc' = other.pc
    /\ i' = other.i
    /\ encoded_sents_word' = other.encoded_sents_word
    /\ sentence_alphas' = other.sentence_alphas
    /\ lengths' = other.lengths
    /\ sentence_words_nonzero' = other.sentence_words_nonzero
    /\ indexes_nonzero' = other.indexes_nonzero
    /\ lengths_nonzero' = other.lengths_nonzero
    /\ sorted_lengths' = other.sorted_lengths
    /\ sorted_indices' = other.sorted_indices
    /\ sentence_words' = other.sentence_words
    /\ words_encoded' = other.words_encoded
    /\ sentence_vector' = other.sentence_vector
    /\ sentence_alpha' = other.sentence_alpha
    /\ encoded_sents' = other.encoded_sents
    /\ encoded_docs' = other.encoded_docs
    /\ document_alpha' = other.document_alpha
    /\ out' = other.out
    /\ branch' = other.branch
    /\ UNCHANGED <<params, embedding_weights, constructed, sentence_lengths>>

Switch ==
    /\ other # NoValue
    /\ other' = Frame
    /\ running' = 3 - running
    /\ X' = other.X
    /\ X0' = other.X0
    /\ pc' = other.pc
    /\ i' = other.i
    /\ encoded_sents_word' = other.encoded_sents_word
    /\ sentence_alphas' = other.sentence_alphas
    /\ sentence_lengths' = other.sentence_lengths
    /\ lengths' = other.lengths
    /\ sentence_words_nonzero' = other.sentence_words_nonzero
    /\ indexes_nonzero' = other.indexes_nonzero
    /\ lengths_nonzero' = other.lengths_nonzero
    /\ sorted_lengths' = other.sorted_lengths
    /\ sorted_indices' = other.sorted_indices
    /\ sentence_words' = other.sentence_words
    /\ words_encoded' = other.words_encoded
    /\ sentence_vector' = other.sentence_vector
    /\ sentence_alpha' = other.sentence_alpha
    /\ encoded_sents' = other.encoded_sents
    /\ encoded_docs' = other.encoded_docs
    /\ document_alpha' = other.document_alpha
    /\ out' = other.out
    /\ branch' = other.branch
    /\ UNCHANGED <<params, embedding_weights, constructed>>

Next2 ==
    \/ Next
    \/ Switch

Spec2 == Init2 /\ [][Next2]_vars

----------------------------------------------------------------------------
\* Reference definitions used by the properties.

\* The number of entries of row before the first pv, Len(row) if there is none.
FirstPadding(row, pv) ==
    IF \E k \in 1..Len(row) : row[k] = pv
    THEN (CHOOSE k \in 1..Len(row) :
             row[k] = pv /\ \A m \in 1..(k - 1) : row[m] # pv) - 1
    ELSE Len(row)

\* Document d has no token in slot s.
EmptyAt(d, s) == FirstPadding(X[d][s], padding_idx) = 0

\* The rows of the current slot that have a token.
KeptRows == {b \in 1..batch_size : ~EmptyAt(b, i)}

\* The steps of a slot at which the probe's results are those of slot i.
AfterProbe == {"sort", "encode", "pool", "repack", "append", "count"}
AfterSort == {"encode", "pool", "repack", "append", "count"}
AfterEncode == {"pool", "repack", "append", "count"}
AfterRepack == {"append", "count"}
Returned == {"SENTENCE_LEVEL", "PROJECT", "DONE"}

\* The longest probed length of slot s.
SlotWidth(s) ==
    CHOOSE m \in 0..n_words :
        /\ \A b \in 1..batch_size : FirstPadding(X[b][s], padding_idx) <= m
        /\ \E b \in 1..batch_size : FirstPadding(X[b][s], padding_idx) = m

\* The encoding of one row of the current slot, computed on its own.
RowEncoding(row, width) ==
    gru_packed_row(embed(<<row>>, params.embed)[1],
                   FirstPadding(row, padding_idx), width)

----------------------------------------------------------------------------
\* C1: get_sequence_lengths returns, for every row and every padding value,
\* the position index of the first occurrence of the padding value, or the
\* row's full length when it does not occur; so the result lies in
\* 0..max_len, a row that begins with padding has length 0, and an interior
\* padding token truncates the length whatever follows it.
C1_ProbeIsFirstPadding ==
    pc \in AfterProbe =>
        /\ lengths = [b \in 1..batch_size |-> FirstPadding(X[b][i], padding_idx)]
        /\ \A pv \in Tokens \cup {0} : \A b \in 1..batch_size :
              LET row == X[b][i]
                  len == get_sequence_lengths(slot(X, i), pv)[b]
              IN /\ len = FirstPadding(row, pv)
                 /\ len \in 0..n_words
                 /\ (row[1] = pv => len = 0)
                 /\ \A k \in 1..n_words :
                       (row[k] = pv /\ \A m \in 1..(k - 1) : row[m] # pv)
                           => len = k - 1

\* An interior padding token with a word after it: the length stops there.
C1_Witness ==
    /\ pc = "sort"
    /\ \E b \in 1..batch_size : \E k \in 2..(n_words - 1) :
          /\ sentence_words[b][k] = padding_idx
          /\ sentence_words[b][k + 1] # padding_idx
          /\ lengths[b] = k - 1

\* C2: the kept indices are exactly the rows of probed length > 0, in
\* ascending row order, and after sort, encode and unsort the j-th encoded
\* row is the encoding of the row at the j-th kept index.
C2_KeptOrderPreserved ==
    pc \in AfterEncode =>
        /\ \A j \in 1..Len(indexes_nonzero) : indexes_nonzero[j] \in KeptRows
        /\ \A b \in KeptRows : \E j \in 1..Len(indexes_nonzero) :
              indexes_nonzero[j] = b
        /\ \A j \in 1..(Len(indexes_nonzero) - 1) :
              indexes_nonzero[j] < indexes_nonzero[j + 1]
        /\ Len(words_encoded) = Len(indexes_nonzero)
        /\ \A j \in 1..Len(indexes_nonzero) :
              words_encoded[j] = RowEncoding(X[indexes_nonzero[j]][i], SlotWidth(i))

\* A dropped row stands between kept rows, the sort moved the rows, and two
\* kept rows have different encodings.
C2_Witness ==
    /\ pc = "pool"
    /\ Len(indexes_nonzero) >= 2
    /\ \E b \in 1..batch_size :
          /\ lengths[b] = 0
          /\ \E a, c \in KeptRows : a < b /\ b < c
    /\ sorted_indices[1] # 1
    /\ words_encoded[1] # words_encoded[2]

\* The rows _repack_with_zero_seqs must return for the kept rows kept_vectors.
RepackedRows(kept_vectors, indexes, width) ==
    [b \in 1..batch_size |->
        IF \E j \in 1..Len(indexes) : indexes[j] = b
        THEN kept_vectors[CHOOSE j \in 1..Len(indexes) : indexes[j] = b]
        ELSE [k \in 1..width |-> Zero]]

\* C3: _repack_with_zero_seqs returns exactly batch_size rows; row b is the
\* kept vector paired with index b when b is a kept index, the zero vector
\* otherwise.
C3_RepackPlacesKeptRows ==
    [][pc = "repack" =>
          /\ Len(sentence_vector') = batch_size
          /\ Len(sentence_alpha') = batch_size
          /\ sentence_vector' =
                 RepackedRows(sentence_vector, indexes_nonzero, 2 * n_hidden)
          /\ sentence_alpha' =
                 RepackedRows(sentence_alpha, indexes_nonzero, SlotWidth(i))]_vars

\* Kept rows 1 and 3 of a batch of 3: the repack gives kept, zero, kept.
C3_Witness ==
    /\ pc = "append"
    /\ batch_size = 3
    /\ indexes_nonzero = <<1, 3>>
    /\ sentence_vector[2] = Zeros(2 * n_hidden)
    /\ sentence_vector[1] # Zeros(2 * n_hidden)
    /\ sentence_vector[3] # sentence_vector[1]

\* The slots whose count has been added to sentence_lengths.
CountedSlots ==
    IF pc = "INIT" THEN {}
    ELSE IF pc \in Returned \cup {"cat"} THEN 1..n_sents
    ELSE 1..(i - 1)

\* C4: the observed sentence count of document d is the number of slots at
\* which d's probed length is > 0: each slot adds exactly 1 for the rows that
\* are non-empty at it and nothing for the others.
C4_CountIsNonEmptySlots ==
    /\ pc \notin {"INIT", "failed"} =>
          sentence_lengths =
              [d \in 1..batch_size |->
                  Cardinality({s \in CountedSlots : ~EmptyAt(d, s)})]
    /\ pc \in Returned =>
          \A d \in 1..batch_size :
              sentence_lengths[d] =
                  Cardinality({s \in 1..n_sents : ~EmptyAt(d, s)})

\* Two documents, two slots, the second slot of document 2 padded.
C4_Witness ==
    /\ pc = "SENTENCE_LEVEL"
    /\ batch_size = 2
    /\ n_sents = 2
    /\ EmptyAt(2, 2)
    /\ sentence_lengths = <<2, 1>>

\* C5: when every row of a slot has probed length 0 (and every document has
\* a token in some other slot), the forward pass does not fail at that slot.
C5_AllEmptySlotDoesNotFail ==
    ~(/\ pc = "failed"
      /\ \A b \in 1..batch_size : EmptyAt(b, i)
      /\ \A d \in 1..batch_size : \E s \in 1..n_sents : ~EmptyAt(d, s))

\* C6: the sentence-level pass takes the observed sentence counts as
\* lengths: a sentence position that is empty for a document is left out of
\* the sentence encoder (its output there is the padding zero) and of the
\* document-level attention (it has no weight).
C6_SentencePassUsesCounts ==
    pc = "DONE" =>
        \A d \in 1..batch_size : \A s \in 1..n_sents :
            EmptyAt(d, s) =>
                /\ encoded_sents[d][s] = Zeros(2 * n_hidden)
                /\ document_alpha[d][s] = Zero

\* The number of rows of rows equal to row.
Occurrences(rows, row) == Cardinality({j \in 1..Len(rows) : rows[j] = row})

\* C7: the rows handed to the embedding and to the word encoder are exactly
\* the rows of probed length > 0; a row of length 0 is never handed over and
\* shows only as a zero row of the repacked batch.
C7_OnlyNonEmptyRowsEncoded ==
    /\ pc \in AfterSort =>
          /\ Len(sentence_words) = Cardinality(KeptRows)
          /\ \A j \in 1..Len(sentence_words) :
                /\ FirstPadding(sentence_words[j], padding_idx) > 0
                /\ Occurrences(sentence_words, sentence_words[j]) =
                       Cardinality({b \in KeptRows : X[b][i] = sentence_words[j]})
          /\ \A b \in KeptRows : \E j \in 1..Len(sentence_words) :
                sentence_words[j] = X[b][i]
    /\ pc \in AfterEncode => Len(words_encoded) = Cardinality(KeptRows)
    /\ pc \in AfterRepack =>
          \A b \in 1..batch_size :
              EmptyAt(b, i) => sentence_vector[b] = Zeros(2 * n_hidden)

\* A slot with a dropped row and two kept rows reaches the encoder.
C7_Witness ==
    /\ pc = "pool"
    /\ \E b \in 1..batch_size : lengths[b] = 0
    /\ Len(sentence_words) = 2
    /\ Len(words_encoded) = 2

\* The slots whose vectors have been appended to the accumulating lists.
AppendedSlots ==
    IF pc \in {"INIT", "failed"} THEN 0
    ELSE IF pc \in {"count", "cat"} THEN i
    ELSE i - 1

\* C8: after k slots the accumulated sentence vectors and the list of word
\* attention arrays hold k entries of batch_size rows each; at the end of
\* the word-level pass the tensor is batch_size x n_sents x feature_dim and
\* the document attention batch_size x n_sents, whatever was empty.
C8_BatchLayoutKept ==
    /\ pc \in {"probe", "cat"} \cup AfterProbe =>
          /\ Len(encoded_sents_word) = AppendedSlots
          /\ Len(sentence_alphas) = AppendedSlots
          /\ \A k \in 1..AppendedSlots :
                /\ Len(encoded_sents_word[k]) = batch_size
                /\ Len(sentence_alphas[k]) = batch_size
                /\ \A b \in 1..batch_size :
                      Len(encoded_sents_word[k][b]) = 2 * n_hidden
    /\ pc \in Returned =>
          /\ Len(encoded_sents_word) = batch_size
          /\ Len(sentence_alphas) = n_sents
          /\ \A d \in 1..batch_size :
                /\ Len(encoded_sents_word[d]) = n_sents
                /\ \A s \in 1..n_sents :
                      /\ Len(encoded_sents_word[d][s]) = 2 * n_hidden
                      /\ Len(sentence_alphas[s]) = batch_size
    /\ pc \in {"PROJECT", "DONE"} =>
          /\ Len(document_alpha) = batch_size
          /\ \A d \in 1..batch_size : Len(document_alpha[d]) = n_sents
    /\ pc = "DONE" =>
          /\ Len(out) = batch_size
          /\ \A d \in 1..batch_size : Len(out[d]) = n_classes

\* A pass over two slots ends with a document that was empty at one of them.
C8_Witness ==
    /\ pc = "DONE"
    /\ n_sents = 2
    /\ batch_size >= 2
    /\ \E d \in 1..batch_size : \E s \in 1..n_sents : EmptyAt(d, s)

\* C9 as stated: every word-level attention array returned by forward has
\* batch_size rows and n_words columns.
C9_AlphaWidthIsNWords ==
    pc = "DONE" =>
        \A s \in 1..n_sents :
            /\ Len(sentence_alphas[s]) = batch_size
            /\ \A b \in 1..batch_size : Len(sentence_alphas[s][b]) = n_words

\* C9, amended: every word-level attention array returned by forward has
\* batch_size rows and as many columns as the longest probed length among
\* the rows of its slot, which is at most n_words and is n_words only when
\* some row of the slot holds no padding token.
C9_AlphaWidthIsLongestLength ==
    pc = "DONE" =>
        \A s \in 1..n_sents :
            /\ Len(sentence_alphas[s]) = batch_size
            /\ \A b \in 1..batch_size :
                  /\ Len(sentence_alphas[s][b]) = SlotWidth(s)
                  /\ Len(sentence_alphas[s][b]) <= n_words
                  /\ (Len(sentence_alphas[s][b]) = n_words <=>
                         \E a \in 1..batch_size :
                             \A k \in 1..n_words : X[a][s][k] # padding_idx)

\* forward returned, and the longest sentence of a slot is shorter than
\* n_words.
C9_Witness ==
    /\ pc = "DONE"
    /\ \E s \in 1..n_sents :
          /\ SlotWidth(s) < n_words
          /\ Len(sentence_alphas[s][1]) < n_words

\* The pooled vector and the attention weights of document b at slot s,
\* computed on that document's row alone.
AlphaFor(b, s) ==
    attention_alpha(RowEncoding(X[b][s], SlotWidth(s)), params.word_u_w)
PooledFor(b, s) ==
    attention_out(RowEncoding(X[b][s], SlotWidth(s)), AlphaFor(b, s))

\* C10: at every slot, the repacked pooled vector and the repacked attention
\* row of a document that is empty at the slot are all zero, and the row of
\* a document that is not empty at the slot is not a zero fill: it holds the
\* pooled vector and the weights computed for that document.
C10_EmptyRowsAreZero ==
    /\ pc \in AfterRepack =>
          \A b \in 1..batch_size :
              IF EmptyAt(b, i)
              THEN /\ Len(sentence_vector[b]) = 2 * n_hidden
                   /\ \A k \in 1..(2 * n_hidden) : sentence_vector[b][k] = Zero
                   /\ Len(sentence_alpha[b]) = SlotWidth(i)
                   /\ \A t \in 1..SlotWidth(i) : sentence_alpha[b][t] = Zero
              ELSE /\ sentence_vector[b] = PooledFor(b, i)
                   /\ sentence_alpha[b] = AlphaFor(b, i)
    /\ pc \in {"probe", "cat"} \cup AfterProbe =>
          \A s \in 1..AppendedSlots : \A b \in 1..batch_size :
              IF EmptyAt(b, s)
              THEN /\ encoded_sents_word[s][b] = Zeros(2 * n_hidden)
                   /\ sentence_alphas[s][b] = Zeros(SlotWidth(s))
              ELSE /\ encoded_sents_word[s][b] = PooledFor(b, s)
                   /\ sentence_alphas[s][b] = AlphaFor(b, s)

\* A slot was repacked with an empty document and a non-empty one.
C10_Witness ==
    /\ pc = "count"
    /\ \E a, b \in 1..batch_size :
          /\ EmptyAt(a, i)
          /\ ~EmptyAt(b, i)
          /\ sentence_vector[a] = Zeros(2 * n_hidden)
          /\ sentence_vector[b] # Zeros(2 * n_hidden)

\* The phase of a position of the pass: INIT, WORD_LEVEL (every position of
\* the slot loop, the failure inside it included), SENTENCE_LEVEL, PROJECT,
\* DONE.
PhaseOf(p) ==
    IF p = "INIT" THEN 1
    ELSE IF p = "SENTENCE_LEVEL" THEN 3
    ELSE IF p = "PROJECT" THEN 4
    ELSE IF p = "DONE" THEN 5
    ELSE 2

\* Every document of the batch has at least one non-empty sentence slot.
EveryDocumentHasSentence ==
    \A b \in 1..batch_size : \E s \in 1..n_sents : ~EmptyAt(b, s)

\* C11: every step of a forward pass stays in its phase or moves to the next
\* one, the slot index stays or moves to the next slot and never passes
\* n_sentences, the count of a slot follows its repack (the append follows
\* the count), and a pass over a batch whose documents all have a sentence
\* never stops short of DONE by failing.
C11_PhasesInOrderToDone ==
    [][/\ PhaseOf(pc') \in {PhaseOf(pc), PhaseOf(pc) + 1}
       /\ i' \in {i, i + 1}
       /\ i' <= n_sents
       /\ (pc = "repack" /\ pc' # pc) => pc' = "count"
       /\ EveryDocumentHasSentence => pc' # "failed"]_vars

\* C12: at a slot where exactly one row is non-empty, the lengths handed to
\* pack_padded_sequence are accepted and the pass does not fail there, the
\* encoded batch has one row (the encoding of that row), and the repacked
\* vectors and weights hold that row's result at the row's batch index and
\* zeros at every other batch index.
C12_SingleKeptRowEncodes ==
    (pc \in AfterProbe \cup {"failed"} /\ Cardinality(KeptRows) = 1) =>
        LET b == CHOOSE r \in KeptRows : TRUE
        IN /\ pc # "failed"
           /\ pc = "encode" => pack_padded_sequence_ok(sorted_lengths)
           /\ pc \in AfterEncode =>
                 /\ Len(words_encoded) = 1
                 /\ words_encoded[1] = RowEncoding(X[b][i], SlotWidth(i))
           /\ pc \in AfterRepack =>
                 /\ Len(sentence_vector) = batch_size
                 /\ Len(sentence_alpha) = batch_size
                 /\ sentence_vector[b] = PooledFor(b, i)
                 /\ sentence_alpha[b] = AlphaFor(b, i)
                 /\ \A a \in 1..batch_size \ {b} :
                       /\ sentence_vector[a] = Zeros(2 * n_hidden)
                       /\ sentence_alpha[a] = Zeros(SlotWidth(i))

\* A slot whose only non-empty row is not the first row of the batch was
\* encoded and repacked.
C12_Witness ==
    /\ pc = "count"
    /\ Cardinality(KeptRows) = 1
    /\ batch_size > 1
    /\ 1 \notin KeptRows
    /\ Len(words_encoded) = 1
    /\ \E b \in KeptRows : sentence_vector[b] # Zeros(2 * n_hidden)

\* C13: at every position of a forward pass, the slicing of a slot, the
\* selection of the kept rows and their reordering included, the caller's
\* TokenBatch holds the entries it held when forward was called.
C13_InputNeverMutated == X = X0

\* A pass is done whose last slot dropped a row and moved the kept rows
\* out of their batch order.
C13_Witness ==
    /\ pc = "DONE"
    /\ Len(indexes_nonzero) < batch_size
    /\ \E j \in 1..Len(sorted_indices) : sorted_indices[j] # j
    /\ X = X0

----------------------------------------------------------------------------
\* What a forward pass over X computes when it runs alone, as functions of
\* X and the parameters.

\* The repacked sentence vectors and word attention weights of slot s.
ExpectedVectors(s) ==
    [b \in 1..batch_size |->
        IF EmptyAt(b, s) THEN Zeros(2 * n_hidden) ELSE PooledFor(b, s)]
ExpectedAlphas(s) ==
    [b \in 1..batch_size |->
        IF EmptyAt(b, s) THEN Zeros(SlotWidth(s)) ELSE AlphaFor(b, s)]

\* The observed sentence counts after the slots in slots were counted.
ExpectedCounts(slots) ==
    [d \in 1..batch_size |-> Cardinality({s \in slots : ~EmptyAt(d, s)})]

\* The document vectors, the document attention weights and the logits.
ExpectedSentences == cat_dim1([s \in 1..n_sents |-> ExpectedVectors(s)])
ExpectedDocs ==
    attention_forward(sentence_encoder(ExpectedSentences), params.sentence_u_w)
ExpectedOut == linear_out(ExpectedDocs.out)

\* The running pass stands where a pass over its batch alone would stand:
\* untouched before it begins, then with the counts of its own batch, with
\* the slots of its own batch each time one was appended, and at the end
\* with the results of its own batch.
PassAsAlone ==
    /\ pc = "INIT" => Frame = NewFrame(X)
    /\ pc \notin {"INIT", "failed"} =>
          sentence_lengths = ExpectedCounts(CountedSlots)
    /\ pc \in {"probe", "cat"} \cup AfterProbe =>
          /\ Len(encoded_sents_word) = AppendedSlots
          /\ Len(sentence_alphas) = AppendedSlots
    /\ pc \in {"count", "cat"} =>
          \A s \in 1..AppendedSlots :
                /\ encoded_sents_word[s] = ExpectedVectors(s)
                /\ sentence_alphas[s] = ExpectedAlphas(s)
    /\ pc = "SENTENCE_LEVEL" => encoded_sents_word = ExpectedSentences
    /\ pc \in Returned =>
          sentence_alphas = [s \in 1..n_sents |-> ExpectedAlphas(s)]
    /\ pc = "DONE" =>
          LET docs == ExpectedDocs
          IN /\ encoded_docs = docs.out
             /\ document_alpha = docs.alpha
             /\ out = linear_out(docs.out)

\* C14: in two forward passes interleaved on one model, no step writes a
\* parameter of the model, a step of the running pass leaves the frame of
\* the suspended pass as it was, and at every position the running pass
\* holds the locals and, at the end, the results of a pass over its batch
\* alone.
C14_InterleavedPassesIndependent ==
    /\ []PassAsAlone
    /\ [][/\ params' = params
          /\ running' = running => other' = other]_vars

\* Both passes are done, each was suspended while the other one ran, and
\* their logits differ.
C14_Witness ==
    /\ pc = "DONE"
    /\ other # NoValue
    /\ other.pc = "DONE"
    /\ running = 1
    /\ out = ExpectedOut
    /\ other.out # out

\* C15: every value a forward pass reports is a function of the TokenBatch
\* and the parameters alone, whichever order the sort gives to rows of equal
\* length: the probed lengths and the kept indices of a slot, the encoded
\* rows once they are back in kept-row order, the observed sentence counts,
\* the word and document attention weights and the logits. Two passes with
\* identical inputs and parameters therefore agree on all of them.
C15_OutputsDetermined ==
    /\ pc \in AfterProbe =>
          /\ lengths = [b \in 1..batch_size |->
                           FirstPadding(X[b][i], padding_idx)]
          /\ Len(indexes_nonzero) = Cardinality(KeptRows)
          /\ \A j \in 1..Len(indexes_nonzero) : indexes_nonzero[j] \in KeptRows
          /\ \A j \in 1..(Len(indexes_nonzero) - 1) :
                indexes_nonzero[j] < indexes_nonzero[j + 1]
    /\ pc \in AfterEncode =>
          words_encoded =
              [j \in 1..Len(indexes_nonzero) |->
                  RowEncoding(X[indexes_nonzero[j]][i], SlotWidth(i))]
    /\ pc \notin {"INIT", "failed"} =>
          sentence_lengths = ExpectedCounts(CountedSlots)
    /\ pc \in Returned =>
          sentence_alphas = [s \in 1..n_sents |-> ExpectedAlphas(s)]
    /\ pc \in {"PROJECT", "DONE"} => document_alpha = ExpectedDocs.alpha
    /\ pc = "DONE" => out = ExpectedOut

\* A pass is done whose last slot held two different rows of equal length,
\* which the sort put in the reverse of their batch order.
C15_Witness ==
    /\ pc = "DONE"
    /\ out = ExpectedOut
    /\ Len(sorted_indices) >= 2
    /\ sorted_lengths[1] = sorted_lengths[2]
    /\ sorted_indices[1] > sorted_indices[2]
    /\ sentence_words[1] # sentence_words[2]

\* The weights of one row, each a fraction <<numerator, denominator>>, are
\* non-negative and sum to one: one positive denominator, non-negative
\* numerators that add up to it.
WeightsSumToOne(alpha) ==
    /\ Len(alpha) > 0
    /\ \A t \in 1..Len(alpha) :
          /\ alpha[t][1] >= 0
          /\ alpha[t][2] > 0
          /\ alpha[t][2] = alpha[1][2]
    /\ Sum([t \in 1..Len(alpha) |-> alpha[t][1]]) = alpha[1][2]

\* pooled is the sum over the timesteps of the raw input vector scaled by
\* its weight: entry k holds, in timestep order, one term <<weight, raw
\* entry>> for every timestep whose raw entry is not zero.
IsWeightedSum(pooled, row, alpha) ==
    /\ Len(alpha) = Len(row)
    /\ Len(pooled) = Len(row[1])
    /\ \A k \in 1..Len(pooled) :
          LET nz == {t \in 1..Len(row) : row[t][k] # Zero}
          IN /\ Len(pooled[k]) = Cardinality(nz)
             /\ \A t \in nz :
                   pooled[k][Cardinality({u \in nz : u <= t})] =
                       <<alpha[t], row[t][k]>>

\* C16: for every row the word attention and the sentence attention are
\* given, the returned weights are non-negative and sum to 1 over the row's
\* timesteps, and the pooled vector is the sum over the timesteps of the raw
\* input vector scaled by its weight.
C16_WeightsSumToOneAndPool ==
    /\ pc = "repack" =>
          /\ Len(sentence_alpha) = Len(words_encoded)
          /\ Len(sentence_vector) = Len(words_encoded)
          /\ \A j \in 1..Len(words_encoded) :
                /\ WeightsSumToOne(sentence_alpha[j])
                /\ IsWeightedSum(sentence_vector[j], words_encoded[j],
                                 sentence_alpha[j])
    /\ pc \in {"PROJECT", "DONE"} =>
          /\ Len(document_alpha) = batch_size
          /\ Len(encoded_docs) = batch_size
          /\ \A d \in 1..batch_size :
                /\ WeightsSumToOne(document_alpha[d])
                /\ IsWeightedSum(encoded_docs[d], encoded_sents[d],
                                 document_alpha[d])

\* The word attention returned for two rows of different lengths, the
\* longer one of two timesteps or more with weights that are not all equal.
C16_Witness ==
    /\ pc = "repack"
    /\ Len(words_encoded) >= 2
    /\ \E j \in 1..Len(words_encoded) :
          /\ Len(sentence_alpha[j]) >= 2
          /\ sentence_alpha[j][1] # sentence_alpha[j][2]
          /\ lengths_nonzero[j] = Len(sentence_alpha[j])
    /\ \E j \in 1..Len(words_encoded) :
          lengths_nonzero[j] < Len(sentence_alpha[j])

\* C17: the construction of the model returns, with a pretrained table and
\* without one, and with a table given the model's embedding table is that
\* table.
C17_PretrainedTableInstalled ==
    /\ constructed
    /\ embedding_weights # <<>> => params.embed = embedding_weights[1]

\* C18: at every slot with at least one kept row, the lengths handed to
\* pack_padded_sequence are non-increasing, each at least 1, a permutation
\* of the probed lengths of the kept rows, and the k-th of them is the
\* probed length of the k-th row of the reordered batch.
C18_PackedLengthsSorted ==
    (pc \in AfterSort /\ Len(indexes_nonzero) >= 1) =>
        /\ Len(sorted_lengths) = Cardinality(KeptRows)
        /\ Len(sentence_words) = Len(sorted_lengths)
        /\ \A k \in 1..(Len(sorted_lengths) - 1) :
              sorted_lengths[k] >= sorted_lengths[k + 1]
        /\ \A k \in 1..Len(sorted_lengths) :
              /\ sorted_lengths[k] >= 1
              /\ sorted_lengths[k] =
                     FirstPadding(sentence_words[k], padding_idx)
        /\ \A v \in 1..n_words :
              Occurrences(sorted_lengths, v) =
                  Cardinality({b \in KeptRows :
                                  FirstPadding(X[b][i], padding_idx) = v})

\* Kept rows of different lengths, not in sorted order in the batch, are
\* about to be packed.
C18_Witness ==
    /\ pc = "encode"
    /\ Len(sorted_lengths) >= 2
    /\ sorted_lengths[1] > sorted_lengths[Len(sorted_lengths)]
    /\ lengths_nonzero[1] < sorted_lengths[1]
    /\ pack_padded_sequence_ok(sorted_lengths)

\* C19, as stated: at a slot with exactly one kept row the pass takes the
\* else branch of the dim() test, which builds the batch by unsqueeze, and
\* does not sort.
C19_SingletonTakesElseBranch ==
    (pc \in AfterSort /\ Len(indexes_nonzero) = 1) => branch = "unsqueeze"

\* C19, amended: at a slot with exactly one kept row the dim() test is true
\* and the pass takes the sort branch; the sort of the single length gives
\* the identity permutation, the same length and the one-row batch of the
\* kept row. The else branch is taken at no slot.
C19_SingletonIsSorted ==
    /\ branch # "unsqueeze"
    /\ (pc \in AfterSort /\ Len(indexes_nonzero) = 1) =>
          /\ branch = "sort"
          /\ sorted_indices = <<1>>
          /\ sorted_lengths = lengths_nonzero
          /\ Len(sentence_words) = 1
          /\ sentence_words[1] = X[indexes_nonzero[1]][i]

\* A slot of a batch of two or more rows with exactly one kept row went
\* through the sort and was encoded.
C19_Witness ==
    /\ pc = "count"
    /\ batch_size >= 2
    /\ Len(indexes_nonzero) = 1
    /\ branch = "sort"
    /\ Len(words_encoded) = 1

\* The empty slots of document d are all trailing.
EmptySlotsTrailing(d) ==
    \A s, u \in 1..n_sents : (s < u /\ EmptyAt(d, s)) => EmptyAt(d, u)

\* The number of slots of document d before its first empty slot;
\* n_sents when it has none.
LeadingSlots(d) ==
    IF \E s \in 1..n_sents : EmptyAt(d, s)
    THEN (CHOOSE s \in 1..n_sents :
              /\ EmptyAt(d, s)
              /\ \A u \in 1..(s - 1) : ~EmptyAt(d, u)) - 1
    ELSE n_sents

\* C20: for every document whose empty slots are all trailing, the
\* observed sentence count encode_sentences_words returns is the number of
\* slots before the document's first empty slot (the 0-based index of that
\* slot), or n_sentences when it has no empty slot.
C20_CountIsLeadingPrefix ==
    pc \in Returned =>
        \A d \in 1..batch_size :
            EmptySlotsTrailing(d) => sentence_lengths[d] = LeadingSlots(d)

\* Returned counts for a document with a trailing empty slot next to a
\* document with none.
C20_Witness ==
    /\ pc \in Returned
    /\ n_sents >= 2
    /\ \E d, e \in 1..batch_size :
          /\ EmptySlotsTrailing(d)
          /\ LeadingSlots(d) = 1
          /\ sentence_lengths[d] = 1
          /\ EmptySlotsTrailing(e)
          /\ sentence_lengths[e] = n_sents

\* The permutation a stable descending sort returns: rows of equal length
\* keep their batch order.
StableSort(keys) ==
    CHOOSE p \in sort_descending(keys) :
        \A a, b \in 1..Len(keys) :
            (a < b /\ keys[p[a]] = keys[p[b]]) => p[a] < p[b]

\* Lines 167-191 run with the sort permutation p: the kept rows reordered
\* by p, encoded, put back by argsort(p), pooled and repacked.
UnsortedEncoding(p) ==
    Gather(word_encoder(embed(Gather(sentence_words_nonzero, p), params.embed),
                        Gather(lengths_nonzero, p)),
           argsort(p))
PoolAndRepack(encoded) ==
    _repack_with_zero_seqs(attention_forward(encoded, params.word_u_w).out,
                           batch_size, indexes_nonzero)
RepackedWith(p) == PoolAndRepack(UnsortedEncoding(p))

\* C21: at every slot with a kept row, for every permutation the descending
\* sort of the kept lengths may return, row j of the encoded rows indexed by
\* argsort of the permutation is the encoding of kept row j, and the
\* repacked batch is the one a stable sort gives; the batch the pass
\* repacked is that batch too.
C21_UnsortIndependentOfTies ==
    /\ (pc = "encode" /\ Len(indexes_nonzero) >= 1) =>
          LET stable == RepackedWith(StableSort(lengths_nonzero))
          IN \A p \in sort_descending(lengths_nonzero) :
                LET encoded == UnsortedEncoding(p)
                IN /\ Len(encoded) = Len(indexes_nonzero)
                   /\ \A j \in 1..Len(indexes_nonzero) :
                         encoded[j] =
                             RowEncoding(X[indexes_nonzero[j]][i], SlotWidth(i))
                   /\ PoolAndRepack(encoded) = stable
    /\ (pc \in AfterRepack /\ Len(indexes_nonzero) >= 1) =>
          sentence_vector = RepackedWith(StableSort(lengths_nonzero))

\* A slot was repacked whose sort put two different rows of equal length
\* in the reverse of their batch order, next to a row of another length.
C21_Witness ==
    /\ pc = "count"
    /\ Len(sorted_indices) >= 3
    /\ sorted_indices # StableSort(lengths_nonzero)
    /\ \E a, b \in 1..Len(sorted_indices) :
          /\ a < b
          /\ sorted_lengths[a] = sorted_lengths[b]
          /\ sorted_indices[a] > sorted_indices[b]
          /\ sentence_words[a] # sentence_words[b]
    /\ sorted_lengths[1] > sorted_lengths[Len(sorted_lengths)]
    /\ sentence_vector = RepackedWith(StableSort(lengths_nonzero))

====
